---------------------------- MODULE Spec2Model ----------------------------
(***************************************************************************)
(* VendorCalc: the local store (Dexie tables products, history, settings), *)
(* the invoice number allocator, the Firestore mirror and the sign-in      *)
(* reconciliation, as one state machine.                                   *)
(*                                                                         *)
(* Every async function of the source is a task: it runs from one await to *)
(* the next in one step.  A request to the local store is queued and the   *)
(* requests on one table execute in the order they were issued; the        *)
(* function that awaits a request resumes in the step that executes it.    *)
(* A call to the remote store or to the sign-in popup completes at any     *)
(* later step, successfully or not.                                        *)
(***************************************************************************)
EXTENDS Integers, Sequences, FiniteSets, Bags, TLC

(***************************************************************************)
(* Bounds of the model.                                                    *)
(***************************************************************************)
MaxTasks == 2        \* async calls in flight at once
MaxOps == 2          \* user operations started in one run
MaxQty == 1          \* largest quantity entered for one product
MaxId == 2           \* largest id the user passes to update and delete

(***************************************************************************)
(* JavaScript values that are not integers.  A price is an integer, NaN    *)
(* (parseFloat of an empty field) or null (JSON.stringify of NaN).         *)
(***************************************************************************)
NaN == -999
JsNull == -998

Tasks == 1 .. MaxTasks
NoUser == "none"
Uids == {"u1", "u2"}

VARIABLES
    products,      \* Dexie table: [rows: id -> Product, nextKey: key generator]
    history,       \* Dexie table: [rows: id -> HistoryItem, nextKey]
    settings,      \* Dexie table settings: key -> value (a string)
    dbQueue,       \* requests issued to the local store, not yet executed
    remote,        \* Firestore: uid -> [products: id -> doc, history: id -> doc]
    authUid,       \* the Firebase Auth session (NoUser when signed out)
    authEvents,    \* auth state changes not yet delivered to the listener
    user,          \* React state `user`
    isSyncing,     \* React state `isSyncing`
    vendorName,    \* React state `vendorName`
    loading,       \* React state `loading`
    legacy,        \* localStorage: legacy products/history and vc_migrated
    activeBill,    \* React state `activeBill` of InnerApp
    isBillSaved,   \* React state `isBillSaved` of InnerApp
    tasks,         \* the async calls in flight
    last,          \* how the async call that settled last ended
    clock,         \* the wall clock read by new Date()
    opCount,       \* user operations started so far
    serial         \* TRUE: the user starts an operation only when none is in flight

vars == << products, history, settings, dbQueue, remote, authUid, authEvents,
           user, isSyncing, vendorName, loading, legacy, activeBill,
           isBillSaved, tasks, last, clock, opCount, serial >>

localStore == << products, history, settings >>

(***************************************************************************)
(* Strings of digits: a string is a sequence of one-character strings.     *)
(***************************************************************************)
DigitChars == << "0", "1", "2", "3", "4", "5", "6", "7", "8", "9" >>

DigitVal(ch) == (CHOOSE i \in 1 .. 10 : DigitChars[i] = ch) - 1

\* String(n) of a non-negative integer.
RECURSIVE NumToString(_)
NumToString(n) ==
    IF n < 10 THEN << DigitChars[n + 1] >>
    ELSE NumToString(n \div 10) \o << DigitChars[(n % 10) + 1] >>

\* parseInt(s) of a non-empty string of digits.
RECURSIVE ParseInt(_)
ParseInt(s) ==
    IF Len(s) = 1 THEN DigitVal(s[1])
    ELSE 10 * ParseInt(SubSeq(s, 1, Len(s) - 1)) + DigitVal(s[Len(s)])

PadStart(s, width, ch) ==
    IF Len(s) >= width THEN s
    ELSE [i \in 1 .. (width - Len(s)) |-> ch] \o s

Min(S) == CHOOSE x \in S : \A y \in S : x <= y
Max(S) == CHOOSE x \in S : \A y \in S : x >= y

RECURSIVE SortedSeq(_)
SortedSeq(S) == IF S = {} THEN << >> ELSE << Min(S) >> \o SortedSeq(S \ {Min(S)})

(***************************************************************************)
(* JavaScript arithmetic on prices.                                        *)
(***************************************************************************)
ToNumber(x) == IF x = JsNull THEN 0 ELSE x
JsMul(a, b) == IF ToNumber(a) = NaN \/ ToNumber(b) = NaN THEN NaN ELSE ToNumber(a) * ToNumber(b)
JsAdd(a, b) == IF ToNumber(a) = NaN \/ ToNumber(b) = NaN THEN NaN ELSE ToNumber(a) + ToNumber(b)
JsGt(a, b) == ToNumber(a) # NaN /\ ToNumber(b) # NaN /\ ToNumber(a) > ToNumber(b)

(***************************************************************************)
(* The Dexie tables.  products and history have an auto-incremented        *)
(* inbound key `id`; clear() does not reset the key generator and a put    *)
(* with an explicit key moves the generator past it.                       *)
(***************************************************************************)
EmptyTable == [rows |-> << >>, nextKey |-> 1]

\* Table.add(rec) of a record without id: the key generator gives the id.
TableAdd(tbl, rec) ==
    [rows |-> tbl.rows @@ (tbl.nextKey :> ([id |-> tbl.nextKey] @@ rec)),
     nextKey |-> tbl.nextKey + 1]

TablePut(tbl, id, rec) ==
    [rows |-> (id :> rec) @@ tbl.rows,
     nextKey |-> IF id >= tbl.nextKey THEN id + 1 ELSE tbl.nextKey]

TableDelete(tbl, id) ==
    [tbl EXCEPT !.rows = [k \in DOMAIN tbl.rows \ {id} |-> tbl.rows[k]]]

TableClear_Keep(tbl) == tbl

TableClear(tbl) == [tbl EXCEPT !.rows = << >>]

TableHas(tbl, id) == id \in DOMAIN tbl.rows

\* Table.update(id, changes): merges into the row when there is one, and
\* resolves (to 0) without writing when there is none.
TableUpdate(tbl, id, rec) ==
    IF TableHas(tbl, id) THEN [tbl EXCEPT !.rows[id] = rec] ELSE tbl

\* Table.toArray(): the rows in primary-key order.
ToArray(tbl) == [i \in 1 .. Cardinality(DOMAIN tbl.rows) |->
                    tbl.rows[SortedSeq(DOMAIN tbl.rows)[i]]]

(***************************************************************************)
(* The request queue of the local store.                                   *)
(***************************************************************************)
Enqueue(q, t, table) == Append(q, [task |-> t, table |-> table])

AtHead_AfterMirrors(t) ==
    /\ \A u \in DOMAIN tasks : tasks[u].pc # "mirror"
    /\ \E i \in 1 .. Len(dbQueue) :
          /\ dbQueue[i].task = t
          /\ \A j \in 1 .. (i - 1) : dbQueue[j].table # dbQueue[i].table

\* Task t's request is the oldest one on its table.
AtHead(t) ==
    \E i \in 1 .. Len(dbQueue) :
        /\ dbQueue[i].task = t
        /\ \A j \in 1 .. (i - 1) : dbQueue[j].table # dbQueue[i].table

Dequeue(q, t) ==
    LET i == CHOOSE k \in 1 .. Len(q) : q[k].task = t
    IN  SubSeq(q, 1, i - 1) \o SubSeq(q, i + 1, Len(q))

(***************************************************************************)
(* Tasks.                                                                  *)
(***************************************************************************)
Idle == [op |-> "idle", pc |-> "idle"]

IsIdle(t) == tasks[t].op = "idle"

AllIdle == \A t \in Tasks : IsIdle(t)

FreeSlots == {t \in Tasks : IsIdle(t)}

\* A user operation starts in the first free slot.
CanStart(t) ==
    /\ ~loading
    /\ opCount < MaxOps
    /\ FreeSlots # {}
    /\ t = Min(FreeSlots)
    /\ serial => (AllIdle /\ authEvents = << >>)

\* op: the function; outcome: its promise; how: "ok", "failed", "invalid",
\* or "none" when it made no remote call.
Settled(op, outcome, how) == [op |-> op, outcome |-> outcome, how |-> how]

NoneSettled == Settled("none", "resolved", "none")

\* What the stores hold when a call is made.
Snapshot ==
    [products |-> products, history |-> history, settings |-> settings,
     remote |-> remote]

\* How task t's call ended, with the id or file it was given, the stores
\* as they were when it was made and, for a sign-in stopped by a failed
\* setDoc, the pushes it had left (the failed one first).
Report(t, outcome, how) ==
    Settled(tasks[t].op, outcome, how) @@
    [f \in DOMAIN tasks[t] \cap {"id", "uid", "file", "rt", "pre", "todo"} |->
        tasks[t][f]]


uiVars == << vendorName, loading, legacy >>
billVars == << activeBill, isBillSaved >>
authVars == << authUid, authEvents, user, isSyncing >>

(***************************************************************************)
(* The Firestore helpers: one document per record, keyed by the record's   *)
(* id.  A mirror request names the helper and its argument.                *)
(***************************************************************************)
EmptyReplica == [products |-> << >>, history |-> << >>]

DropKey(f, id) == [k \in DOMAIN f \ {id} |-> f[k]]

pushProductToFirestore_KeepRemote(r, uid, product) ==
    [r EXCEPT ![uid].products = @ @@ (product.id :> product)]

pushProductToFirestore(r, uid, product) ==
    [r EXCEPT ![uid].products = (product.id :> product) @@ @]

pushHistoryToFirestore(r, uid, item) ==
    [r EXCEPT ![uid].history = (item.id :> item) @@ @]

deleteProductFromFirestore_All(r, uid, id) ==
    [r EXCEPT ![uid].products = << >>]

deleteProductFromFirestore(r, uid, id) ==
    [r EXCEPT ![uid].products = DropKey(@, id)]

deleteHistoryFromFirestore(r, uid, id) ==
    [r EXCEPT ![uid].history = DropKey(@, id)]

MirrorApply(r, uid, m) ==
    CASE m.kind = "pushProduct" -> pushProductToFirestore(r, uid, m.doc)
      [] m.kind = "pushHistory" -> pushHistoryToFirestore(r, uid, m.doc)
      [] m.kind = "deleteProduct" -> deleteProductFromFirestore(r, uid, m.id)
      [] m.kind = "deleteHistory" -> deleteHistoryFromFirestore(r, uid, m.id)

MirrorCatch_Rethrow(result) == IF result = "failed" THEN "rejected" ELSE "resolved"

\* `.catch(console.error)` on the helper's promise: the awaited promise
\* resolves whether the remote call succeeded ("ok") or not ("failed").
MirrorCatch(result) == "resolved"

\* The rest of a facade mutation once its local write has executed:
\* `if (user) await <helper>(user.uid, ...).catch(console.error)`.
AfterLocalWrite(t, m) ==
    IF tasks[t].usr # NoUser
    THEN /\ tasks' = [tasks EXCEPT ![t] = [@ EXCEPT !.pc = "mirror"] @@ [mirror |-> m]]
         /\ UNCHANGED last
    ELSE /\ tasks' = [tasks EXCEPT ![t] = Idle]
         /\ last' = Report(t, "resolved", "none")

(***************************************************************************)
(* Products: addProduct, updateProduct, deleteProduct.                     *)
(***************************************************************************)
Product(id, name, price, category) ==
    [id |-> id, name |-> name, price |-> price, category |-> category]

addProduct(t, name, price, category) ==
    /\ CanStart(t)
    /\ tasks' = [tasks EXCEPT ![t] =
                    [op |-> "addProduct", pc |-> "add", usr |-> user,
                     name |-> name, price |-> price, category |-> category]]
    /\ dbQueue' = Enqueue(dbQueue, t, "products")
    /\ opCount' = opCount + 1
    /\ UNCHANGED << localStore, remote, authVars, uiVars, billVars, last, clock, serial >>

addProductWrite(t) ==
    /\ tasks[t].op = "addProduct" /\ tasks[t].pc = "add" /\ AtHead(t)
    /\ LET prod == Product(products.nextKey, tasks[t].name, tasks[t].price,
                           tasks[t].category)
       IN  /\ products' = TableAdd(products, [name |-> tasks[t].name,
                                               price |-> tasks[t].price,
                                               category |-> tasks[t].category])
           /\ AfterLocalWrite(t, [kind |-> "pushProduct", doc |-> prod])
    /\ dbQueue' = Dequeue(dbQueue, t)
    /\ UNCHANGED << history, settings, remote, authVars, uiVars, billVars, clock,
                    opCount, serial >>

updateProduct(t, id, name, price, category) ==
    /\ CanStart(t)
    /\ tasks' = [tasks EXCEPT ![t] =
                    [op |-> "updateProduct", pc |-> "update", usr |-> user,
                     id |-> id, name |-> name, price |-> price,
                     category |-> category, pre |-> Snapshot]]
    /\ dbQueue' = Enqueue(dbQueue, t, "products")
    /\ opCount' = opCount + 1
    /\ UNCHANGED << localStore, remote, authVars, uiVars, billVars, last, clock, serial >>

updateProductWrite(t) ==
    /\ tasks[t].op = "updateProduct" /\ tasks[t].pc = "update" /\ AtHead(t)
    /\ LET prod == Product(tasks[t].id, tasks[t].name, tasks[t].price,
                           tasks[t].category)
       IN  /\ products' = TableUpdate(products, tasks[t].id, prod)
           /\ AfterLocalWrite(t, [kind |-> "pushProduct", doc |-> prod])
    /\ dbQueue' = Dequeue(dbQueue, t)
    /\ UNCHANGED << history, settings, remote, authVars, uiVars, billVars, clock,
                    opCount, serial >>

deleteProduct(t, id) ==
    /\ CanStart(t)
    /\ tasks' = [tasks EXCEPT ![t] =
                    [op |-> "deleteProduct", pc |-> "delete", usr |-> user, id |-> id,
                     pre |-> Snapshot]]
    /\ dbQueue' = Enqueue(dbQueue, t, "products")
    /\ opCount' = opCount + 1
    /\ UNCHANGED << localStore, remote, authVars, uiVars, billVars, last, clock, serial >>

deleteProductWrite_Cascade(t) ==
    /\ tasks[t].op = "deleteProduct" /\ tasks[t].pc = "delete" /\ AtHead(t)
    /\ products' = TableDelete(products, tasks[t].id)
    /\ history' = IF TableHas(products, tasks[t].id)
                  THEN [history EXCEPT !.rows =
                          [i \in {j \in DOMAIN history.rows :
                                     \A k \in DOMAIN history.rows[j].items :
                                        history.rows[j].items[k].name #
                                            products.rows[tasks[t].id].name} |->
                              history.rows[i]]]
                  ELSE history
    /\ AfterLocalWrite(t, [kind |-> "deleteProduct", id |-> tasks[t].id])
    /\ dbQueue' = Dequeue(dbQueue, t)
    /\ UNCHANGED << settings, remote, authVars, uiVars, billVars, clock,
                    opCount, serial >>

deleteProductWrite(t) ==
    /\ tasks[t].op = "deleteProduct" /\ tasks[t].pc = "delete" /\ AtHead(t)
    /\ products' = TableDelete(products, tasks[t].id)
    /\ AfterLocalWrite(t, [kind |-> "deleteProduct", id |-> tasks[t].id])
    /\ dbQueue' = Dequeue(dbQueue, t)
    /\ UNCHANGED << history, settings, remote, authVars, uiVars, billVars, clock,
                    opCount, serial >>

(***************************************************************************)
(* SettingsView: the Add form (handleAdd) and the edit row (handleUpdate). *)
(* A typed name is a string; a typed price is what parseFloat makes of it. *)
(***************************************************************************)
\* String.prototype.trim: of the names typed here only the blank one has
\* white space to strip.
Trim(s) == IF s = " " THEN "" ELSE s

\* `if (!newProdName.trim()) return; if (isNaN(price) || price < 0) return;`
handleAdd(t, newProdName, price) ==
    /\ Trim(newProdName) # ""
    /\ ~(price = NaN \/ price < 0)
    /\ addProduct(t, Trim(newProdName), price, "General")

\* The edit row of product id is rendered, so its two inputs exist; their
\* values are passed on as they are.
handleUpdate(t, id, name, price) ==
    /\ id \in DOMAIN products.rows
    /\ updateProduct(t, id, name, price, "General")

(***************************************************************************)
(* The invoice number allocator.                                           *)
(***************************************************************************)
\* `row?.value || '0'`
CounterValue(s) ==
    IF "invoiceCounter" \in DOMAIN s /\ s["invoiceCounter"] # << >>
    THEN s["invoiceCounter"] ELSE << "0" >>

NextCounter_Stale(s) == ParseInt(CounterValue(s))

NextCounter_Restart(s) == 1

NextCounter(s) == ParseInt(CounterValue(s)) + 1

FormatInvoiceNo(next) ==
    << "I", "N", "V", "-" >> \o PadStart(NumToString(next), 3, "0")

(***************************************************************************)
(* Bills: the preview (handleShowBill), Save (handleSaveBill), saveBill    *)
(* and deleteHistoryItem.                                                  *)
(***************************************************************************)
RECURSIVE SumTotals(_, _)
SumTotals(ids, q) ==
    IF ids = << >> THEN 0
    ELSE JsAdd(SumTotals(SubSeq(ids, 1, Len(ids) - 1), q),
               JsMul(products.rows[ids[Len(ids)]].price, q[ids[Len(ids)]]))

\* CalculatorView: the items with a quantity, and the grand total.
BillItems(q) ==
    LET ids == SortedSeq({i \in DOMAIN products.rows : q[i] > 0})
    IN  [k \in 1 .. Len(ids) |->
            [name |-> products.rows[ids[k]].name,
             price |-> products.rows[ids[k]].price,
             quantity |-> q[ids[k]],
             total |-> JsMul(products.rows[ids[k]].price, q[ids[k]])]]

GrandTotal(q) == SumTotals(SortedSeq(DOMAIN products.rows), q)

Draft(q) ==
    [vendor_name |-> vendorName, customer_name |-> "", items |-> BillItems(q),
     grand_total |-> GrandTotal(q), discount |-> 0, discount_amount |-> 0,
     final_total |-> GrandTotal(q)]

PreviewNo == << "-" >>

\* `const { id, invoice_no, created_at, ...partial } = activeBill`
Partial(bill) ==
    [f \in DOMAIN bill \ {"id", "invoice_no", "created_at"} |-> bill[f]]

\* The Show Bill button is rendered while grandTotal > 0.
handleShowBill(q) ==
    /\ ~loading
    /\ JsGt(GrandTotal(q), 0)
    /\ Len(BillItems(q)) # 0
    /\ vendorName # ""
    /\ activeBill' = << Draft(q) @@ [invoice_no |-> PreviewNo, created_at |-> clock] >>
    /\ isBillSaved' = FALSE
    /\ UNCHANGED << localStore, dbQueue, remote, authVars, uiVars, tasks, last,
                    clock, opCount, serial >>

\* saveBill up to its first await, the read in getNextInvoiceNo.
saveBill(t, partialBill) ==
    /\ CanStart(t)
    /\ tasks' = [tasks EXCEPT ![t] =
                    [op |-> "saveBill", pc |-> "getCounter", usr |-> user,
                     draft |-> partialBill, pre |-> Snapshot]]
    /\ dbQueue' = Enqueue(dbQueue, t, "settings")
    /\ opCount' = opCount + 1
    /\ UNCHANGED << localStore, remote, authVars, uiVars, billVars, last, clock, serial >>

\* `if (!activeBill || isBillSaved) return; ... await saveBill(partial)`
handleSaveBill(t) ==
    /\ activeBill # << >>
    /\ ~isBillSaved
    /\ saveBill(t, Partial(activeBill[1]))

\* getNextInvoiceNo: the read executes; the write is issued.
getCounter(t) ==
    /\ tasks[t].op = "saveBill" /\ tasks[t].pc = "getCounter" /\ AtHead(t)
    /\ tasks' = [tasks EXCEPT ![t] =
                    [@ EXCEPT !.pc = "putCounter"] @@ [next |-> NextCounter(settings)]]
    /\ dbQueue' = Enqueue(Dequeue(dbQueue, t), t, "settings")
    /\ UNCHANGED << localStore, remote, authVars, uiVars, billVars, last, clock,
                    opCount, serial >>

\* getNextInvoiceNo: the write executes; saveBill stamps the bill and issues
\* history.add.
putCounter(t) ==
    /\ tasks[t].op = "saveBill" /\ tasks[t].pc = "putCounter" /\ AtHead(t)
    /\ settings' = ("invoiceCounter" :> NumToString(tasks[t].next)) @@ settings
    /\ tasks' = [tasks EXCEPT ![t] =
                    [@ EXCEPT !.pc = "addBill"] @@
                    [bill |-> tasks[t].draft @@
                              [invoice_no |-> FormatInvoiceNo(tasks[t].next),
                               created_at |-> clock]]]
    /\ clock' = clock + 1
    /\ dbQueue' = Enqueue(Dequeue(dbQueue, t), t, "history")
    /\ UNCHANGED << products, history, remote, authVars, uiVars, billVars, last,
                    opCount, serial >>

\* saveBill returns to handleSaveBill: setActiveBill(saved); setIsBillSaved(true).
ReturnSaved(saved) ==
    /\ activeBill' = << saved >>
    /\ isBillSaved' = TRUE

addBill(t) ==
    /\ tasks[t].op = "saveBill" /\ tasks[t].pc = "addBill" /\ AtHead(t)
    /\ LET saved == tasks[t].bill @@ [id |-> history.nextKey]
       IN  /\ history' = TableAdd(history, tasks[t].bill)
           /\ IF tasks[t].usr # NoUser
              THEN /\ tasks' = [tasks EXCEPT ![t] =
                                  [@ EXCEPT !.pc = "mirror"] @@
                                  [mirror |-> [kind |-> "pushHistory", doc |-> saved]]]
                   /\ UNCHANGED << last, billVars >>
              ELSE /\ tasks' = [tasks EXCEPT ![t] = Idle]
                   /\ last' = Report(t, "resolved", "none")
                   /\ ReturnSaved(saved)
    /\ dbQueue' = Dequeue(dbQueue, t)
    /\ UNCHANGED << products, settings, remote, authVars, uiVars, clock, opCount, serial >>

deleteHistoryItem(t, id) ==
    /\ CanStart(t)
    /\ tasks' = [tasks EXCEPT ![t] =
                    [op |-> "deleteHistoryItem", pc |-> "delete", usr |-> user,
                     id |-> id, pre |-> Snapshot]]
    /\ dbQueue' = Enqueue(dbQueue, t, "history")
    /\ opCount' = opCount + 1
    /\ UNCHANGED << localStore, remote, authVars, uiVars, billVars, last, clock, serial >>

deleteHistoryItemWrite(t) ==
    /\ tasks[t].op = "deleteHistoryItem" /\ tasks[t].pc = "delete" /\ AtHead(t)
    /\ history' = TableDelete(history, tasks[t].id)
    /\ AfterLocalWrite(t, [kind |-> "deleteHistory", id |-> tasks[t].id])
    /\ dbQueue' = Dequeue(dbQueue, t)
    /\ UNCHANGED << products, settings, remote, authVars, uiVars, billVars, clock,
                    opCount, serial >>

(***************************************************************************)
(* The local-store request a facade mutation awaits rejects (the quota is  *)
(* exceeded, the database was closed): the await throws, the mutation      *)
(* rejects to its caller and the lines after the await do not run.         *)
(***************************************************************************)
Mutations ==
    {"addProduct", "updateProduct", "deleteProduct", "saveBill", "deleteHistoryItem"}

WritePcs == {"add", "update", "delete", "addBill"}

localWriteFailed_StillMirrors(t) ==
    /\ tasks[t].op \in Mutations /\ tasks[t].pc \in WritePcs /\ AtHead(t)
    /\ dbQueue' = Dequeue(dbQueue, t)
    /\ IF tasks[t].op = "deleteProduct" /\ tasks[t].usr # NoUser
       THEN AfterLocalWrite(t, [kind |-> "deleteProduct", id |-> tasks[t].id])
       ELSE /\ tasks' = [tasks EXCEPT ![t] = Idle]
            /\ last' = Report(t, "rejected", "none")
    /\ UNCHANGED << localStore, remote, authVars, uiVars, billVars, clock, opCount,
                    serial >>

localWriteFailed(t) ==
    /\ tasks[t].op \in Mutations /\ tasks[t].pc \in WritePcs /\ AtHead(t)
    /\ dbQueue' = Dequeue(dbQueue, t)
    /\ tasks' = [tasks EXCEPT ![t] = Idle]
    /\ last' = Report(t, "rejected", "none")
    /\ UNCHANGED << localStore, remote, authVars, uiVars, billVars, clock, opCount,
                    serial >>

(***************************************************************************)
(* The remote call of a mutation's mirror completes: it was applied (ok)   *)
(* or it failed.  The mutation then returns to its caller.                 *)
(***************************************************************************)
mirrorDone(t, ok) ==
    /\ tasks[t].pc = "mirror"
    /\ remote' = IF ok THEN MirrorApply(remote, tasks[t].usr, tasks[t].mirror)
                 ELSE remote
    /\ tasks' = [tasks EXCEPT ![t] = Idle]
    /\ last' = Report(t, MirrorCatch(IF ok THEN "ok" ELSE "failed"),
                      IF ok THEN "ok" ELSE "failed")
    /\ IF tasks[t].op = "saveBill" /\ last'.outcome = "resolved"
       THEN ReturnSaved(tasks[t].mirror.doc)
       ELSE UNCHANGED billVars
    /\ UNCHANGED << localStore, dbQueue, authVars, uiVars, clock, opCount, serial >>



(***************************************************************************)
(* history.orderBy('created_at').reverse().toArray(): newest first.        *)
(***************************************************************************)
Newest(ids) ==
    CHOOSE i \in ids : \A j \in ids :
        \/ history.rows[j].created_at < history.rows[i].created_at
        \/ history.rows[j].created_at = history.rows[i].created_at /\ j <= i

RECURSIVE NewestFirst(_)
NewestFirst(ids) ==
    IF ids = {} THEN << >>
    ELSE << history.rows[Newest(ids)] >> \o NewestFirst(ids \ {Newest(ids)})

\* The created_at index holds only the rows that have a created_at.
HistoryByDate ==
    NewestFirst({i \in DOMAIN history.rows : "created_at" \in DOMAIN history.rows[i]})

DocsOf(f) == [i \in 1 .. Cardinality(DOMAIN f) |-> f[SortedSeq(DOMAIN f)[i]]]

(***************************************************************************)
(* Sign-in, sign-out and the auth state listener.                          *)
(***************************************************************************)
\* The Sign in button is rendered while `user` is null.
signInWithGoogle(t) ==
    /\ CanStart(t)
    /\ user = NoUser
    /\ tasks' = [tasks EXCEPT ![t] =
                    [op |-> "signIn", pc |-> "popup", pre |-> Snapshot,
                     prev |-> last]]
    /\ opCount' = opCount + 1
    /\ UNCHANGED << localStore, dbQueue, remote, authVars, uiVars, billVars, last,
                    clock, serial >>

\* `catch { toast.error } finally { setIsSyncing(false) }`: neither
\* signInWithGoogle nor the listener ever rejects.
EndSync(t, how) ==
    /\ tasks' = [tasks EXCEPT ![t] = Idle]
    /\ last' = IF tasks[t].op = "signIn"
               THEN Report(t, "resolved", how)
               ELSE last
    /\ isSyncing' = FALSE

\* signInWithPopup resolves: the session is uid's, the listener will be told,
\* and pushAllToFirestore issues its first read.
popupSignedIn(t, uid) ==
    /\ tasks[t].op = "signIn" /\ tasks[t].pc = "popup"
    /\ authUid' = uid
    /\ authEvents' = IF authUid = uid THEN authEvents ELSE Append(authEvents, uid)
    /\ isSyncing' = TRUE
    /\ tasks' = [tasks EXCEPT ![t] = [@ EXCEPT !.pc = "pushReadProducts"] @@
                                     [uid |-> uid]]
    /\ dbQueue' = Enqueue(dbQueue, t, "products")
    /\ UNCHANGED << localStore, remote, user, uiVars, billVars, last, clock,
                    opCount, serial >>

\* signInWithPopup rejects (the popup was closed, the network is down).
popupFailed(t) ==
    /\ tasks[t].op = "signIn" /\ tasks[t].pc = "popup"
    /\ EndSync(t, "failed")
    /\ UNCHANGED << localStore, dbQueue, remote, authUid, authEvents, user, uiVars,
                    billVars, clock, opCount, serial >>

\* pushAllToFirestore: products.toArray() executes.
pushReadProducts(t) ==
    /\ tasks[t].pc = "pushReadProducts" /\ AtHead(t)
    /\ tasks' = [tasks EXCEPT ![t] =
                    [@ EXCEPT !.pc = "pushReadHistory"] @@
                    [prods |-> ToArray(products)]]
    /\ dbQueue' = Enqueue(Dequeue(dbQueue, t), t, "history")
    /\ UNCHANGED << localStore, remote, authVars, uiVars, billVars, last, clock,
                    opCount, serial >>

PushRequests(prods, hist) ==
    [i \in 1 .. Len(prods) |-> [kind |-> "pushProduct", doc |-> prods[i]]]
    \o [i \in 1 .. Len(hist) |-> [kind |-> "pushHistory", doc |-> hist[i]]]

\* pushAllToFirestore: the history query executes; the first setDoc is sent,
\* or, with nothing to push, syncFromFirestore sends its first getDocs.
pushReadHistory(t) ==
    /\ tasks[t].pc = "pushReadHistory" /\ AtHead(t)
    /\ LET todo == PushRequests(tasks[t].prods, HistoryByDate)
       IN  tasks' = [tasks EXCEPT ![t] =
                        [op |-> "signIn", uid |-> tasks[t].uid, pre |-> tasks[t].pre,
                         prev |-> tasks[t].prev,
                         pc |-> IF todo = << >> THEN "pullListProducts" ELSE "push",
                         todo |-> todo]]
    /\ dbQueue' = Dequeue(dbQueue, t)
    /\ UNCHANGED << localStore, remote, authVars, uiVars, billVars, last, clock,
                    opCount, serial >>

\* One setDoc of pushAllToFirestore was applied.
pushApplied(t) ==
    /\ tasks[t].pc = "push"
    /\ remote' = MirrorApply(remote, tasks[t].uid, Head(tasks[t].todo))
    /\ tasks' = [tasks EXCEPT ![t] =
                    [@ EXCEPT !.todo = Tail(@),
                              !.pc = IF Tail(tasks[t].todo) = << >>
                                     THEN "pullListProducts" ELSE "push"]]
    /\ UNCHANGED << localStore, dbQueue, authVars, uiVars, billVars, last, clock,
                    opCount, serial >>

\* One setDoc of pushAllToFirestore failed: signInWithGoogle's catch.
pushFailed(t) ==
    /\ tasks[t].pc = "push"
    /\ EndSync(t, "failed")
    /\ UNCHANGED << localStore, dbQueue, remote, authUid, authEvents, user, uiVars,
                    billVars, clock, opCount, serial >>

\* syncFromFirestore: getDocs(products) resolves.
pullListProducts(t) ==
    /\ tasks[t].pc = "pullListProducts"
    /\ tasks' = [tasks EXCEPT ![t] =
                    [pc |-> "pullListHistory"] @@
                    [f \in DOMAIN tasks[t] \ {"todo"} |-> tasks[t][f]] @@
                    [prodSnap |-> DocsOf(remote[tasks[t].uid].products)]]
    /\ UNCHANGED << localStore, dbQueue, remote, authVars, uiVars, billVars, last,
                    clock, opCount, serial >>

PullRequests(prodSnap, histSnap) ==
    [i \in 1 .. Len(prodSnap) |-> [table |-> "products", doc |-> prodSnap[i]]]
    \o [i \in 1 .. Len(histSnap) |-> [table |-> "history", doc |-> histSnap[i]]]

\* The pull loop moves to the next remote document, or syncFromFirestore
\* returns and the caller's finally runs.
PullAdvance(t, rest, q) ==
    IF rest = << >>
    THEN /\ EndSync(t, "ok")
         /\ dbQueue' = q
    ELSE /\ tasks' = [tasks EXCEPT ![t] =
                        [pc |-> "pullGet", pulls |-> rest] @@
                        [f \in DOMAIN tasks[t] \ {"prodSnap"} |-> tasks[t][f]]]
         /\ dbQueue' = Enqueue(q, t, Head(rest).table)
         /\ UNCHANGED << last, isSyncing >>

\* syncFromFirestore: getDocs(history) resolves; the loop issues its first get.
pullListHistory(t) ==
    /\ tasks[t].pc = "pullListHistory"
    /\ PullAdvance(t, PullRequests(tasks[t].prodSnap,
                                   DocsOf(remote[tasks[t].uid].history)), dbQueue)
    /\ UNCHANGED << localStore, remote, authUid, authEvents, user, uiVars, billVars,
                    clock, opCount, serial >>

\* A getDocs of syncFromFirestore rejects.
pullListFailed(t) ==
    /\ tasks[t].pc \in {"pullListProducts", "pullListHistory"}
    /\ EndSync(t, "failed")
    /\ UNCHANGED << localStore, dbQueue, remote, authUid, authEvents, user, uiVars,
                    billVars, clock, opCount, serial >>

LocalTable(name) == IF name = "products" THEN products ELSE history

\* `const local = await table.get(remote.id); if (!local) await table.put(remote)`
pullGet(t) ==
    /\ tasks[t].pc = "pullGet" /\ AtHead(t)
    /\ LET req == Head(tasks[t].pulls)
       IN  IF TableHas(LocalTable(req.table), req.doc.id)
           THEN PullAdvance(t, Tail(tasks[t].pulls), Dequeue(dbQueue, t))
           ELSE /\ tasks' = [tasks EXCEPT ![t].pc = "pullPut"]
                /\ dbQueue' = Enqueue(Dequeue(dbQueue, t), t, req.table)
                /\ UNCHANGED << last, isSyncing >>
    /\ UNCHANGED << localStore, remote, authUid, authEvents, user, uiVars, billVars,
                    clock, opCount, serial >>

pullPut(t) ==
    /\ tasks[t].pc = "pullPut" /\ AtHead(t)
    /\ LET req == Head(tasks[t].pulls)
       IN  /\ products' = IF req.table = "products"
                          THEN TablePut(products, req.doc.id, req.doc) ELSE products
           /\ history' = IF req.table = "history"
                         THEN TablePut(history, req.doc.id, req.doc) ELSE history
    /\ PullAdvance(t, Tail(tasks[t].pulls), Dequeue(dbQueue, t))
    /\ UNCHANGED << settings, remote, authUid, authEvents, user, uiVars, billVars,
                    clock, opCount, serial >>

\* onAuthStateChanged delivers a change: setUser(fbUser) and, for a user,
\* setIsSyncing(true) and syncFromFirestore's first getDocs.
authListener(t) ==
    /\ authEvents # << >>
    /\ FreeSlots # {} /\ t = Min(FreeSlots)
    /\ user' = Head(authEvents)
    /\ authEvents' = Tail(authEvents)
    /\ IF Head(authEvents) # NoUser
       THEN /\ isSyncing' = TRUE
            /\ tasks' = [tasks EXCEPT ![t] =
                            [op |-> "listener", uid |-> Head(authEvents),
                             pc |-> "pullListProducts"]]
       ELSE UNCHANGED << isSyncing, tasks >>
    /\ UNCHANGED << localStore, dbQueue, remote, authUid, uiVars, billVars, last,
                    clock, opCount, serial >>

\* The Sign Out button is rendered while `user` is set.
signOutUser(t) ==
    /\ CanStart(t)
    /\ user # NoUser
    /\ tasks' = [tasks EXCEPT ![t] = [op |-> "signOut", pc |-> "signOut"]]
    /\ opCount' = opCount + 1
    /\ UNCHANGED << localStore, dbQueue, remote, authVars, uiVars, billVars, last,
                    clock, serial >>

\* fbSignOut resolves; setUser(null).
signedOut(t) ==
    /\ tasks[t].op = "signOut" /\ tasks[t].pc = "signOut"
    /\ authUid' = NoUser
    /\ authEvents' = IF authUid = NoUser THEN authEvents ELSE Append(authEvents, NoUser)
    /\ user' = NoUser
    /\ tasks' = [tasks EXCEPT ![t] = Idle]
    /\ last' = Settled("signOut", "resolved", "none")
    /\ UNCHANGED << localStore, dbQueue, remote, isSyncing, uiVars, billVars, clock,
                    opCount, serial >>




(***************************************************************************)
(* Backup files: exportJSON and importJSON.                                *)
(***************************************************************************)
\* JSON.stringify writes NaN as null.
JsonNumber(x) == IF x = NaN THEN JsNull ELSE x

JsonProduct(p) == [p EXCEPT !.price = JsonNumber(@)]

JsonItem(it) ==
    [it EXCEPT !.price = JsonNumber(@), !.quantity = JsonNumber(@),
               !.total = JsonNumber(@)]

JsonInvoice(h) ==
    [h EXCEPT !.items = [i \in 1 .. Len(h.items) |-> JsonItem(h.items[i])],
              !.grand_total = JsonNumber(@), !.discount = JsonNumber(@),
              !.discount_amount = JsonNumber(@), !.final_total = JsonNumber(@)]

\* A parsed file: whether `products` and `history` are arrays, and their entries.
BackupFile(pshape, prods, hshape, hist) ==
    [pshape |-> pshape, products |-> prods, hshape |-> hshape, history |-> hist]

\* exportJSON: the file written from the live queries `products` and `history`.
exportJSON ==
    BackupFile("array",
               [i \in 1 .. Len(ToArray(products)) |-> JsonProduct(ToArray(products)[i])],
               "array",
               [i \in 1 .. Len(HistoryByDate) |-> JsonInvoice(HistoryByDate[i])])

\* The Export button: exportJSON runs to its end in one go (it awaits
\* nothing) and the file is downloaded.
exportDownload ==
    /\ ~loading
    /\ opCount < MaxOps
    /\ serial => (AllIdle /\ authEvents = << >>)
    /\ last' = Settled("exportJSON", "resolved", "none") @@ [file |-> exportJSON]
    /\ opCount' = opCount + 1
    /\ UNCHANGED << localStore, dbQueue, remote, authVars, uiVars, billVars, tasks,
                    clock, serial >>

\* `!Array.isArray(data.products) || !Array.isArray(data.history)` is false.
IsBackup_ProductsOnly(data) == data.pshape = "array"
IsBackup(data) == data.pshape = "array" /\ data.hshape = "array"

\* `{ name: p.name, price: p.price, category: p.category || 'General' }`
ImportedProduct(p) ==
    [name |-> p.name, price |-> p.price,
     category |-> IF p.category = "" THEN "General" ELSE p.category]

\* `const { id: _id, ...rest } = h`
ImportedInvoice(h) == [f \in DOMAIN h \ {"id"} |-> h[f]]

ImportAdds(data) ==
    [i \in 1 .. Len(data.products) |->
        [table |-> "products", rec |-> ImportedProduct(data.products[i])]]
    \o [i \in 1 .. Len(data.history) |->
        [table |-> "history", rec |-> ImportedInvoice(data.history[i])]]

\* importJSON up to `await file.text()`.  rt: the file is the one exportJSON
\* writes in this state.
importJSON(t, file, rt) ==
    /\ CanStart(t)
    /\ tasks' = [tasks EXCEPT ![t] =
                    [op |-> "importJSON", pc |-> "readFile", file |-> file, rt |-> rt,
                     pre |-> Snapshot]]
    /\ opCount' = opCount + 1
    /\ UNCHANGED << localStore, dbQueue, remote, authVars, uiVars, billVars, last,
                    clock, serial >>

ImportSettled(t, how) ==
    /\ tasks' = [tasks EXCEPT ![t] = Idle]
    /\ last' = Report(t, "resolved", how)

\* The file is read and parsed: an invalid one throws into the catch, a valid
\* one issues products.clear().
importParse(t) ==
    /\ tasks[t].op = "importJSON" /\ tasks[t].pc = "readFile"
    /\ IF IsBackup(tasks[t].file)
       THEN /\ tasks' = [tasks EXCEPT ![t].pc = "clearProducts"]
            /\ dbQueue' = Enqueue(dbQueue, t, "products")
            /\ UNCHANGED last
       ELSE /\ ImportSettled(t, "invalid")
            /\ UNCHANGED dbQueue
    /\ UNCHANGED << localStore, remote, authVars, uiVars, billVars, clock, opCount,
                    serial >>

importClearProducts(t) ==
    /\ tasks[t].op = "importJSON" /\ tasks[t].pc = "clearProducts" /\ AtHead(t)
    /\ products' = TableClear(products)
    /\ tasks' = [tasks EXCEPT ![t].pc = "clearHistory"]
    /\ dbQueue' = Enqueue(Dequeue(dbQueue, t), t, "history")
    /\ UNCHANGED << history, settings, remote, authVars, uiVars, billVars, last,
                    clock, opCount, serial >>

\* The import loop issues its next add, or importJSON returns.
ImportAdvance(t, rest) ==
    IF rest = << >>
    THEN /\ ImportSettled(t, "ok")
         /\ dbQueue' = Dequeue(dbQueue, t)
    ELSE /\ tasks' = [tasks EXCEPT ![t] =
                        [pc |-> "importAdd", adds |-> rest] @@ tasks[t]]
         /\ dbQueue' = Enqueue(Dequeue(dbQueue, t), t, Head(rest).table)
         /\ UNCHANGED last

importClearHistory(t) ==
    /\ tasks[t].op = "importJSON" /\ tasks[t].pc = "clearHistory" /\ AtHead(t)
    /\ history' = TableClear(history)
    /\ ImportAdvance(t, ImportAdds(tasks[t].file))
    /\ UNCHANGED << products, settings, remote, authVars, uiVars, billVars, clock,
                    opCount, serial >>

importAdd(t) ==
    /\ tasks[t].op = "importJSON" /\ tasks[t].pc = "importAdd" /\ AtHead(t)
    /\ LET req == Head(tasks[t].adds)
       IN  /\ products' = IF req.table = "products"
                          THEN TableAdd(products, req.rec) ELSE products
           /\ history' = IF req.table = "history"
                         THEN TableAdd(history, req.rec) ELSE history
    /\ ImportAdvance(t, Tail(tasks[t].adds))
    /\ UNCHANGED << settings, remote, authVars, uiVars, billVars, clock, opCount,
                    serial >>

(***************************************************************************)
(* Settings and start-up: saveVendorName, and the provider's init effect   *)
(* with migrateFromLocalStorage.                                           *)
(***************************************************************************)
saveVendorName(t, name) ==
    /\ CanStart(t)
    /\ vendorName' = name
    /\ tasks' = [tasks EXCEPT ![t] =
                    [op |-> "saveVendorName", pc |-> "putName", name |-> name]]
    /\ dbQueue' = Enqueue(dbQueue, t, "settings")
    /\ opCount' = opCount + 1
    /\ UNCHANGED << localStore, remote, authVars, loading, legacy, billVars, last,
                    clock, serial >>

saveVendorNameWrite(t) ==
    /\ tasks[t].op = "saveVendorName" /\ tasks[t].pc = "putName" /\ AtHead(t)
    /\ settings' = ("vendorName" :> tasks[t].name) @@ settings
    /\ tasks' = [tasks EXCEPT ![t] = Idle]
    /\ last' = Settled("saveVendorName", "resolved", "none")
    /\ dbQueue' = Dequeue(dbQueue, t)
    /\ UNCHANGED << products, history, remote, authVars, uiVars, billVars, clock,
                    opCount, serial >>

\* String(h.id).slice(-3)
Slice3(s) == IF Len(s) <= 3 THEN s ELSE SubSeq(s, Len(s) - 2, Len(s))

MigratedProduct(p) == [name |-> p.name, price |-> p.price, category |-> "General"]

MigratedInvoice(h) ==
    [invoice_no |-> << "I", "N", "V", "-" >> \o PadStart(Slice3(NumToString(h.id)), 3, "0"),
     vendor_name |-> h.vendor_name, customer_name |-> "", items |-> h.items,
     grand_total |-> h.grand_total, discount |-> 0, discount_amount |-> 0,
     final_total |-> h.grand_total, created_at |-> h.created_at]

\* The writes of migrateFromLocalStorage, in order.
MigrationWrites(lg) ==
    [i \in 1 .. Len(lg.products) |->
        [table |-> "products", kind |-> "add", rec |-> MigratedProduct(lg.products[i])]]
    \o [i \in 1 .. Len(lg.history) |->
        [table |-> "history", kind |-> "add", rec |-> MigratedInvoice(lg.history[i])]]
    \o (IF lg.vendorName # ""
        THEN << [table |-> "settings", kind |-> "vendorName", name |-> lg.vendorName] >>
        ELSE << >>)
    \o << [table |-> "settings", kind |-> "invoiceCounter",
           value |-> NumToString(Len(lg.history))] >>

\* The init effect runs: migrateFromLocalStorage returns at once when
\* vc_migrated is set, and issues its first write otherwise.
initEffect(t) ==
    /\ tasks[t].op = "init" /\ tasks[t].pc = "start"
    /\ IF legacy.migrated
       THEN /\ tasks' = [tasks EXCEPT ![t].pc = "loadSettings"]
            /\ dbQueue' = Enqueue(dbQueue, t, "settings")
       ELSE /\ tasks' = [tasks EXCEPT ![t] =
                            [op |-> "init", pc |-> "migrate",
                             writes |-> MigrationWrites(legacy)]]
            /\ dbQueue' = Enqueue(dbQueue, t, Head(MigrationWrites(legacy)).table)
    /\ UNCHANGED << localStore, remote, authVars, uiVars, billVars, last, clock,
                    opCount, serial >>

\* One write of the migration executes; after the last, vc_migrated is set
\* and the effect issues settings.get('vendorName').
migrateWrite(t) ==
    /\ tasks[t].op = "init" /\ tasks[t].pc = "migrate" /\ AtHead(t)
    /\ LET w == Head(tasks[t].writes)
           rest == Tail(tasks[t].writes)
       IN  /\ products' = IF w.table = "products"
                          THEN TableAdd(products, w.rec) ELSE products
           /\ history' = IF w.table = "history"
                         THEN TableAdd(history, w.rec) ELSE history
           /\ settings' = IF w.kind = "vendorName"
                          THEN ("vendorName" :> w.name) @@ settings
                          ELSE IF w.kind = "invoiceCounter"
                          THEN ("invoiceCounter" :> w.value) @@ settings
                          ELSE settings
           /\ IF rest = << >>
              THEN /\ legacy' = [legacy EXCEPT !.migrated = TRUE]
                   /\ tasks' = [tasks EXCEPT ![t] = [op |-> "init", pc |-> "loadSettings"]]
                   /\ dbQueue' = Enqueue(Dequeue(dbQueue, t), t, "settings")
              ELSE /\ legacy' = legacy
                   /\ tasks' = [tasks EXCEPT ![t].writes = rest]
                   /\ dbQueue' = Enqueue(Dequeue(dbQueue, t), t, Head(rest).table)
    /\ UNCHANGED << remote, authVars, vendorName, loading, billVars, last, clock,
                    opCount, serial >>

\* `const row = await settings.get('vendorName'); if (row) setVendorName(row.value);
\*  setLoading(false)`
loadSettings(t) ==
    /\ tasks[t].op = "init" /\ tasks[t].pc = "loadSettings" /\ AtHead(t)
    /\ vendorName' = IF "vendorName" \in DOMAIN settings
                     THEN settings["vendorName"] ELSE vendorName
    /\ loading' = FALSE
    /\ tasks' = [tasks EXCEPT ![t] = Idle]
    /\ dbQueue' = Dequeue(dbQueue, t)
    /\ UNCHANGED << localStore, remote, authVars, legacy, billVars, last, clock,
                    opCount, serial >>



(***************************************************************************)
(* The states the app starts from.                                         *)
(***************************************************************************)
Item(name, price, quantity) ==
    [name |-> name, price |-> price, quantity |-> quantity,
     total |-> JsMul(price, quantity)]

\* A HistoryItem as saveBill stores it: the n-th invoice, without discount.
Invoice(id, n, total, at) ==
    [id |-> id, invoice_no |-> FormatInvoiceNo(n), vendor_name |-> "Shop",
     customer_name |-> "", items |-> << Item("Tea", total, 1) >>,
     grand_total |-> total, discount |-> 0, discount_amount |-> 0,
     final_total |-> total, created_at |-> at]

TableOf(rows) ==
    [rows |-> rows,
     nextKey |-> IF DOMAIN rows = {} THEN 1 ELSE Max(DOMAIN rows) + 1]

NoLegacy == [migrated |-> FALSE, products |-> << >>, history |-> << >>, vendorName |-> ""]

Migrated == [NoLegacy EXCEPT !.migrated = TRUE]

\* localStorage of the version before Dexie: ids are Date.now() values.
OldLegacy ==
    [migrated |-> FALSE,
     products |-> << [id |-> 1005, name |-> "Tea", price |-> 10] >>,
     history |-> << [id |-> 1042, vendor_name |-> "Shop",
                     items |-> << Item("Tea", 10, 1) >>, grand_total |-> 10,
                     created_at |-> 1] >>,
     vendorName |-> "Shop"]

NoReplicas == [u \in Uids |-> EmptyReplica]

\* The state right after construction of the provider and InnerApp, over
\* what the device and the remote store hold.
Start(lg, p, h, s, rem, uid, ser) ==
    /\ products = p /\ history = h /\ settings = s
    /\ dbQueue = << >>
    /\ remote = rem
    /\ authUid = uid
    /\ authEvents = << uid >>
    /\ user = NoUser
    /\ isSyncing = FALSE
    /\ vendorName = ""
    /\ loading = TRUE
    /\ legacy = lg
    /\ activeBill = << >>
    /\ isBillSaved = FALSE
    /\ tasks = [t \in Tasks |-> IF t = 1 THEN [op |-> "init", pc |-> "start"] ELSE Idle]
    /\ last = NoneSettled
    /\ clock = 2
    /\ opCount = 0
    /\ serial = ser

\* The app once start-up is over: migrated, settings loaded, the auth
\* listener has delivered the session and its pull has ended.
Ready(p, h, s, rem, uid, ser) ==
    /\ products = p /\ history = h /\ settings = s
    /\ dbQueue = << >>
    /\ remote = rem
    /\ authUid = uid
    /\ authEvents = << >>
    /\ user = uid
    /\ isSyncing = FALSE
    /\ vendorName = IF "vendorName" \in DOMAIN s THEN s["vendorName"] ELSE ""
    /\ loading = FALSE
    /\ legacy = Migrated
    /\ activeBill = << >>
    /\ isBillSaved = FALSE
    /\ tasks = [t \in Tasks |-> Idle]
    /\ last = NoneSettled
    /\ clock = 2
    /\ opCount = 0
    /\ serial = ser

ShopSettings(n) == ("vendorName" :> "Shop") @@ ("invoiceCounter" :> NumToString(n))

\* What a device used before holds: one product, the first invoice (the
\* second was deleted), the counter at 2.
UsedProducts == TableOf(1 :> Product(1, "Tea", 10, "General"))

UsedHistory == [rows |-> (1 :> Invoice(1, 1, 10, 1)), nextKey |-> 3]

\* What the remote store holds for u1: product 1 as another device last
\* wrote it, and a product this device does not have.
UsedReplicas ==
    [NoReplicas EXCEPT !["u1"].products =
        (1 :> Product(1, "Tea", 15, "General")) @@
        (2 :> Product(2, "Milk", 30, "General"))]

\* First launch (nothing stored), launch after the upgrade (legacy data),
\* or a later launch of a used device; signed out, or with u1's session
\* restored.
Launch(ser) ==
    \E uid \in {NoUser, "u1"} :
        \/ \E lg \in {NoLegacy, OldLegacy} :
              Start(lg, EmptyTable, EmptyTable, << >>, NoReplicas, uid, ser)
        \/ Start(Migrated, UsedProducts, UsedHistory, ShopSettings(2),
                 UsedReplicas, uid, ser)

(***************************************************************************)
(* The files the user picks for an import.                                 *)
(***************************************************************************)
BackupFiles ==
    { BackupFile("array", << >>, "array", << >>),
      BackupFile("array", << [id |-> 7, name |-> "Milk", price |-> 30, category |-> ""] >>,
                 "array", << [Invoice(9, 5, 30, 1) EXCEPT !.discount = 10] >>),
      BackupFile("array", << [id |-> 7, name |-> "Milk", price |-> 30, category |-> ""] >>,
                 "missing", << >>),
      BackupFile("other", << >>, "array", << Invoice(9, 5, 30, 1) >>) }

Quantities == [DOMAIN products.rows -> 0 .. MaxQty]

\* The steps every async call in flight can take.
Continue(t) ==
    \/ addProductWrite(t) \/ updateProductWrite(t) \/ deleteProductWrite(t)
    \/ getCounter(t) \/ putCounter(t) \/ addBill(t)
    \/ deleteHistoryItemWrite(t)
    \/ \E ok \in BOOLEAN : mirrorDone(t, ok)
    \/ \E uid \in Uids : popupSignedIn(t, uid)
    \/ popupFailed(t)
    \/ pushReadProducts(t) \/ pushReadHistory(t) \/ pushApplied(t) \/ pushFailed(t)
    \/ pullListProducts(t) \/ pullListHistory(t) \/ pullListFailed(t)
    \/ pullGet(t) \/ pullPut(t)
    \/ signedOut(t)
    \/ importParse(t) \/ importClearProducts(t) \/ importClearHistory(t)
    \/ importAdd(t)
    \/ saveVendorNameWrite(t)
    \/ initEffect(t) \/ migrateWrite(t) \/ loadSettings(t)

\* The operations the user starts.
UserOp(t) ==
    \/ addProduct(t, "Tea", 10, "General")
    \/ \E id \in 1 .. MaxId : updateProduct(t, id, "Chai", NaN, "General")
    \/ \E id \in 1 .. MaxId : deleteProduct(t, id)
    \/ handleSaveBill(t)
    \/ \E id \in 1 .. MaxId : deleteHistoryItem(t, id)
    \/ signInWithGoogle(t)
    \/ signOutUser(t)
    \/ \E file \in BackupFiles : importJSON(t, file, FALSE)
    \/ importJSON(t, exportJSON, TRUE)
    \/ saveVendorName(t, "Shop")

Next ==
    \/ \E q \in Quantities : handleShowBill(q)
    \/ \E t \in Tasks : UserOp(t) \/ authListener(t) \/ Continue(t)

\* Every operation of the app, started one at a time.
Init == Launch(TRUE)

Spec == Init /\ [][Next]_vars

(***************************************************************************)
(* Overlapping calls: the user does not wait for one operation to end      *)
(* before starting the next (a second tap on Save while the first save is  *)
(* in flight).  The operations that read or write the invoices and the     *)
(* counter.                                                                *)
(***************************************************************************)
ContinueRace(t) ==
    \/ getCounter(t) \/ putCounter(t) \/ addBill(t)
    \/ deleteHistoryItemWrite(t)
    \/ \E ok \in BOOLEAN : mirrorDone(t, ok)
    \/ popupSignedIn(t, "u1")
    \/ popupFailed(t)
    \/ pushReadProducts(t) \/ pushReadHistory(t) \/ pushApplied(t) \/ pushFailed(t)
    \/ pullListProducts(t) \/ pullListHistory(t) \/ pullListFailed(t)
    \/ pullGet(t) \/ pullPut(t)
    \/ importParse(t) \/ importClearProducts(t) \/ importClearHistory(t)
    \/ importAdd(t)
    \/ initEffect(t) \/ migrateWrite(t) \/ loadSettings(t)

UserOpRace(t) ==
    \/ handleSaveBill(t)
    \/ deleteHistoryItem(t, 1)
    \/ signInWithGoogle(t)
    \/ \E file \in {f \in BackupFiles : f.products # << >>} :
          importJSON(t, file, FALSE)

NextRace ==
    \/ \E q \in Quantities : handleShowBill(q)
    \/ \E t \in Tasks : UserOpRace(t) \/ authListener(t) \/ ContinueRace(t)

InitRace == Launch(FALSE)

SpecRace == InitRace /\ [][NextRace]_vars

(***************************************************************************)
(* The product list and the bills of a used device, signed out or signed   *)
(* in: what is typed into SettingsView, and saveBill called with a draft   *)
(* with or without items.  Calls may overlap.                              *)
(***************************************************************************)
TypedNames == {"", " ", "Chai"}

TypedPrices == {NaN, -5, 20}

EmptyDraft ==
    [vendor_name |-> "Shop", customer_name |-> "", items |-> << >>,
     grand_total |-> 0, discount |-> 0, discount_amount |-> 0, final_total |-> 0]

OneItemDraft ==
    [vendor_name |-> "Shop", customer_name |-> "", items |-> << Item("Tea", 10, 1) >>,
     grand_total |-> 10, discount |-> 0, discount_amount |-> 0, final_total |-> 10]

ContinueFacade(t) ==
    \/ addProductWrite(t) \/ updateProductWrite(t) \/ deleteProductWrite(t)
    \/ getCounter(t) \/ putCounter(t) \/ addBill(t)
    \/ \E ok \in BOOLEAN : mirrorDone(t, ok)

UserOpFacade(t) ==
    \/ \E name \in TypedNames, price \in TypedPrices : handleAdd(t, name, price)
    \/ \E id \in 1 .. MaxId, name \in TypedNames, price \in TypedPrices :
          handleUpdate(t, id, name, price)
    \/ \E id \in DOMAIN products.rows : deleteProduct(t, id)
    \/ \E draft \in {EmptyDraft, OneItemDraft} : saveBill(t, draft)

NextFacade == \E t \in Tasks : UserOpFacade(t) \/ ContinueFacade(t)

InitFacade ==
    \E uid \in {NoUser, "u1"} :
        Ready(UsedProducts, UsedHistory, ShopSettings(2), NoReplicas, uid, FALSE)

SpecFacade == InitFacade /\ [][NextFacade]_vars

(***************************************************************************)
(* A used device whose user keeps working while the listener's pull runs   *)
(* and while signing out: adding a product, saving a bill and signing out  *)
(* overlap with each other and with syncFromFirestore.  The replica holds  *)
(* a product and an invoice made on another device.                        *)
(***************************************************************************)
OtherDeviceReplicas ==
    [UsedReplicas EXCEPT !["u1"].history = (3 :> Invoice(3, 3, 30, 1))]

ContinueOverlap(t) ==
    \/ addProductWrite(t)
    \/ getCounter(t) \/ putCounter(t) \/ addBill(t)
    \/ \E ok \in BOOLEAN : mirrorDone(t, ok)
    \/ pullListProducts(t) \/ pullListHistory(t) \/ pullListFailed(t)
    \/ pullGet(t) \/ pullPut(t)
    \/ signedOut(t)
    \/ initEffect(t) \/ loadSettings(t)

UserOpOverlap(t) ==
    \/ addProduct(t, "Tea", 10, "General")
    \/ handleSaveBill(t)
    \/ signOutUser(t)

NextOverlap ==
    \/ \E q \in Quantities : handleShowBill(q)
    \/ \E t \in Tasks : UserOpOverlap(t) \/ authListener(t) \/ ContinueOverlap(t)

InitOverlap ==
    \E uid \in {NoUser, "u1"} :
        Start(Migrated, UsedProducts, UsedHistory, ShopSettings(2),
              OtherDeviceReplicas, uid, FALSE)

SpecOverlap == InitOverlap /\ [][NextOverlap]_vars

(***************************************************************************)
(* Backups of a used device: exports and imports, which may overlap.       *)
(***************************************************************************)
ContinueBackup(t) ==
    \/ importParse(t) \/ importClearProducts(t) \/ importClearHistory(t)
    \/ importAdd(t)

NextBackup ==
    \/ exportDownload
    \/ \E t \in Tasks :
          \/ \E file \in BackupFiles : importJSON(t, file, FALSE)
          \/ ContinueBackup(t)

InitBackup ==
    Ready(UsedProducts, UsedHistory, ShopSettings(2), NoReplicas, NoUser, FALSE)

SpecBackup == InitBackup /\ [][NextBackup]_vars

(***************************************************************************)
(* The five facade mutations of a used device, signed out or signed in,    *)
(* overlapping; a local-store request may reject, a remote call may fail   *)
(* or stay unanswered.                                                     *)
(***************************************************************************)
LocalCommit(t) ==
    \/ addProductWrite(t) \/ updateProductWrite(t) \/ deleteProductWrite(t)
    \/ getCounter(t) \/ putCounter(t) \/ addBill(t)
    \/ deleteHistoryItemWrite(t)

UserOpMirror(t) ==
    \/ addProduct(t, "Tea", 10, "General")
    \/ \E id \in 1 .. MaxId : updateProduct(t, id, "Chai", 20, "General")
    \/ \E id \in 1 .. MaxId : deleteProduct(t, id)
    \/ saveBill(t, OneItemDraft)
    \/ \E id \in 1 .. MaxId : deleteHistoryItem(t, id)

NextMirror ==
    \E t \in Tasks :
        \/ UserOpMirror(t)
        \/ LocalCommit(t)
        \/ localWriteFailed(t)
        \/ \E ok \in BOOLEAN : mirrorDone(t, ok)

InitMirror ==
    \E uid \in {NoUser, "u1"} :
        Ready(UsedProducts, UsedHistory, ShopSettings(2), NoReplicas, uid, FALSE)

SpecMirror == InitMirror /\ [][NextMirror]_vars

(***************************************************************************)
(* The same mutations over a local store that executes every request it is *)
(* given, and a remote store that may leave a call unanswered for ever:    *)
(* only the local-store steps are fair.                                    *)
(***************************************************************************)
NextStuck ==
    \E t \in Tasks :
        \/ UserOpMirror(t)
        \/ LocalCommit(t)
        \/ \E ok \in BOOLEAN : mirrorDone(t, ok)

SpecStuck ==
    InitMirror /\ [][NextStuck]_vars /\ \A t \in Tasks : WF_vars(LocalCommit(t))

(***************************************************************************)
(* Start-up under <StrictMode>: React runs the init effect of a mounting   *)
(* component twice, so two invocations of migrateFromLocalStorage are       *)
(* under way together.  Signed out; nothing but start-up happens.          *)
(***************************************************************************)
StartStrict(lg) ==
    /\ products = EmptyTable /\ history = EmptyTable /\ settings = << >>
    /\ dbQueue = << >>
    /\ remote = NoReplicas
    /\ authUid = NoUser
    /\ authEvents = << NoUser >>
    /\ user = NoUser
    /\ isSyncing = FALSE
    /\ vendorName = ""
    /\ loading = TRUE
    /\ legacy = lg
    /\ activeBill = << >>
    /\ isBillSaved = FALSE
    /\ tasks = [t \in Tasks |-> [op |-> "init", pc |-> "start"]]
    /\ last = NoneSettled
    /\ clock = 2
    /\ opCount = 0
    /\ serial = FALSE

NextMigrate ==
    \E t \in Tasks :
        \/ initEffect(t) \/ migrateWrite(t) \/ loadSettings(t)
        \/ authListener(t)

InitMigrate == \E lg \in {NoLegacy, OldLegacy} : StartStrict(lg)

SpecMigrate == InitMigrate /\ [][NextMigrate]_vars


(***************************************************************************)
(* Claims.                                                                 *)
(***************************************************************************)
Counter == ParseInt(CounterValue(settings))

\* C1: the invoices persisted by saveBill calls whose executions interleave
\* carry pairwise-distinct invoice numbers: no two invoices of the local
\* store have the same invoice_no.
C1_DistinctInvoiceNumbers ==
    \A i, j \in DOMAIN history.rows :
        i # j => history.rows[i].invoice_no # history.rows[j].invoice_no


\* The user operations are over; a pull of the auth listener may still run.
NoUserOp == \A t \in Tasks : tasks[t].op \in {"idle", "listener"}

UnionLocalWins(local, rem) ==
    [id \in DOMAIN local \cup DOMAIN rem |->
        IF id \in DOMAIN local THEN local[id] ELSE rem[id]]

\* C2: once signInWithGoogle has completed its push and pull, the local
\* store and the replica of the signed-in user both hold, in each
\* collection, the records of either side before the call, by id, and a
\* record that was on both sides has the values the local store had.
C2_ReconcileUnionLocalWins ==
    (last.op = "signIn" /\ last.how = "ok" /\ NoUserOp) =>
        LET before == last.pre
            replica == before.remote[last.uid]
        IN  /\ products.rows = UnionLocalWins(before.products.rows, replica.products)
            /\ history.rows = UnionLocalWins(before.history.rows, replica.history)
            /\ remote[last.uid].products = products.rows
            /\ remote[last.uid].history = history.rows

\* A local-only record, a remote-only record and a record on both sides with
\* different values, reconciled.
C2_Reconciled ==
    /\ last.op = "signIn" /\ last.how = "ok" /\ AllIdle
    /\ last.uid = "u1"
    /\ 1 \in DOMAIN last.pre.history.rows
    /\ 1 \notin DOMAIN last.pre.remote["u1"].history
    /\ 1 \in DOMAIN last.pre.products.rows
    /\ last.pre.remote["u1"].products[1] # last.pre.products.rows[1]
    /\ 2 \notin DOMAIN last.pre.products.rows
    /\ 2 \in DOMAIN last.pre.remote["u1"].products

\* C3: when the remote call of a mutation's mirror ends, failed or not, the
\* mutation resolves (no error reaches the caller) and the step leaves the
\* local store as the local write made it.
C3_MirrorFailureContained ==
    [][\A t \in Tasks :
          (tasks[t].pc = "mirror" /\ tasks'[t] = Idle) =>
              /\ last'.op = tasks[t].op
              /\ last'.outcome = "resolved"
              /\ localStore' = localStore]_vars

\* A saveBill whose mirror call failed: resolved, the invoice stored locally
\* and not remotely.
C3_SavedDespiteFailure ==
    /\ last.op = "saveBill" /\ last.how = "failed" /\ last.outcome = "resolved"
    /\ AllIdle /\ isBillSaved /\ user # NoUser
    /\ activeBill[1].id \in DOMAIN history.rows
    /\ activeBill[1].id \notin DOMAIN remote[user].history

Malformed(file) == file.pshape # "array" \/ file.hshape # "array"

\* C4: every step of an importJSON whose file lacks an array `products` or
\* an array `history` leaves products, history and settings unchanged, and
\* the call ends reporting the file as invalid.
C4_InvalidImportChangesNothing ==
    [][\A t \in Tasks :
          (tasks[t].op = "importJSON" /\ Malformed(tasks[t].file)
             /\ tasks'[t] # tasks[t]) =>
              /\ localStore' = localStore
              /\ tasks'[t] = Idle
              /\ last'.how = "invalid"]_vars

\* A file without `history` was refused over a store that holds products.
C4_RefusedImport ==
    /\ last.op = "importJSON" /\ last.how = "invalid"
    /\ last.file.hshape = "missing" /\ last.file.products # << >>
    /\ products.rows # << >>
    /\ << products, history, settings >> =
         << last.pre.products, last.pre.history, last.pre.settings >>

\* Math.round(num / den) for a non-negative quotient.
Round(num, den) == (2 * num + den) \div (2 * den)

\* C5: every invoice of the local store has final_total = grand_total -
\* discount_amount and discount_amount = round(grand_total * discount / 100).
C5_TotalsConsistent ==
    \A id \in DOMAIN history.rows :
        LET h == history.rows[id]
        IN  /\ h.final_total = h.grand_total - h.discount_amount
            /\ h.discount_amount = Round(h.grand_total * h.discount, 100)


(***************************************************************************)
(* The allocator alone: saves made one after the other, from a store       *)
(* without counter (a first launch whose migration threw before its last   *)
(* write) or with the counter just below a power of ten (as many invoices  *)
(* saved, and deleted since).                                              *)
(***************************************************************************)
StartCounters == {8, 98, 998}

InitAlloc ==
    \E uid \in {NoUser, "u1"} :
        \E s \in {("vendorName" :> "Shop")} \cup {ShopSettings(n) : n \in StartCounters} :
            Ready(TableOf(1 :> Product(1, "Tea", 10, "General")), EmptyTable, s,
                  NoReplicas, uid, TRUE)

NextAlloc ==
    \/ \E q \in Quantities : handleShowBill(q)
    \/ \E t \in Tasks :
          \/ handleSaveBill(t)
          \/ getCounter(t) \/ putCounter(t) \/ addBill(t)
          \/ \E ok \in BOOLEAN : mirrorDone(t, ok)

SpecAlloc == InitAlloc /\ [][NextAlloc]_vars

\* The number of saveBill calls made before the one that settled last.
SavedBefore ==
    IF "invoiceCounter" \in DOMAIN last.pre.settings
    THEN ParseInt(last.pre.settings["invoiceCounter"]) ELSE 0

DigitCount(k) == IF k < 10 THEN 1 ELSE IF k < 100 THEN 2 ELSE IF k < 1000 THEN 3 ELSE 4

\* C6: a saveBill made after k - 1 others, none overlapping, returns the
\* invoice number "INV-" followed by k in decimal, zero-padded to three
\* digits and wider from 1000 on, and leaves the stored counter at k.
C6_SequentialInvoiceNumbers ==
    (last.op = "saveBill" /\ AllIdle /\ isBillSaved) =>
        LET k == SavedBefore + 1
            no == activeBill[1].invoice_no
        IN  /\ SubSeq(no, 1, 4) = << "I", "N", "V", "-" >>
            /\ Len(no) = 4 + Max({3, DigitCount(k)})
            /\ ParseInt(SubSeq(no, 5, Len(no))) = k
            /\ settings["invoiceCounter"] = NumToString(k)
            /\ history.rows[activeBill[1].id].invoice_no = no

\* The thousandth invoice was saved.
C6_SavedThousandth ==
    /\ last.op = "saveBill" /\ AllIdle /\ isBillSaved
    /\ SavedBefore = 999
    /\ activeBill[1].invoice_no = << "I", "N", "V", "-", "1", "0", "0", "0" >>

Deletes == {"deleteProduct", "deleteHistoryItem"}

\* Task t is a delete of an id the local store did not hold when it was called.
DeleteOfAbsent(t) ==
    /\ tasks[t].op \in Deletes
    /\ tasks[t].id \notin DOMAIN (IF tasks[t].op = "deleteProduct"
                                  THEN tasks[t].pre.products.rows
                                  ELSE tasks[t].pre.history.rows)

ReplicaDocs(t) ==
    IF tasks[t].op = "deleteProduct"
    THEN remote[tasks[t].usr].products ELSE remote[tasks[t].usr].history

\* C8 as stated: every step of a delete of an absent id (a second call, or
\* an id that never was there) leaves the local store and the remote store
\* unchanged, and the call resolves.
C8_RepeatedDeleteChangesNothing ==
    [][\A t \in Tasks :
          (serial /\ DeleteOfAbsent(t) /\ tasks'[t] # tasks[t]) =>
              /\ localStore' = localStore
              /\ remote' = remote
              /\ (tasks'[t] = Idle => last'.outcome = "resolved")]_vars

\* C8 amended: every step of a delete of an absent id leaves the local
\* store unchanged and the call resolves; the remote store is unchanged
\* too unless the user's replica still holds a document with that id, which
\* the call then deletes when its remote call succeeds.
C8_RepeatedDeleteLocalNoOp ==
    [][\A t \in Tasks :
          (serial /\ DeleteOfAbsent(t) /\ tasks'[t] # tasks[t]) =>
              /\ localStore' = localStore
              /\ (tasks'[t] = Idle => last'.outcome = "resolved")
              /\ \/ remote' = remote
                 \/ /\ tasks[t].usr # NoUser
                    /\ tasks[t].id \in DOMAIN ReplicaDocs(t)
                    /\ remote' = MirrorApply(remote, tasks[t].usr, tasks[t].mirror)
                    /\ \A u \in Uids \ {tasks[t].usr} : remote'[u] = remote[u]]_vars

\* A second deleteProduct(1) by a signed-in user, made right after the
\* first, ended with its remote call applied: product 2 and invoice 1 are
\* still there and no product id was generated since.
C8_DeletedTwice ==
    /\ serial /\ AllIdle
    /\ last.op = "deleteProduct" /\ last.how = "ok" /\ last.id = 1
    /\ 1 \notin DOMAIN last.pre.products.rows
    /\ 2 \in DOMAIN products.rows
    /\ 1 \in DOMAIN history.rows
    /\ products.nextKey = 3
    /\ products = last.pre.products

Range(f) == {f[x] : x \in DOMAIN f}

BagOf(f) == [v \in Range(f) |-> Cardinality({x \in DOMAIN f : f[x] = v})]

ProductTuples(tbl) ==
    BagOf([id \in DOMAIN tbl.rows |->
              << tbl.rows[id].name, tbl.rows[id].price, tbl.rows[id].category >>])

InvoiceTuples(tbl) ==
    BagOf([id \in DOMAIN tbl.rows |->
              << tbl.rows[id].invoice_no, tbl.rows[id].items, tbl.rows[id].final_total >>])

\* C9: after importJSON of the file exportJSON wrote from the same store,
\* the store holds the same multiset of product (name, price, category)
\* and of invoice (invoice_no, items, final_total) tuples as before.
C9_RoundTrip ==
    (last.op = "importJSON" /\ last.rt /\ last.how = "ok" /\ AllIdle) =>
        /\ ProductTuples(products) = ProductTuples(last.pre.products)
        /\ InvoiceTuples(history) = InvoiceTuples(last.pre.history)

\* C10: after a successful importJSON the products are the file's
\* products, one row per entry in file order, and the invoices the file's
\* history entries with their invoice_no, created_at and every other field
\* but the id; every id was generated by the import.
C10_ImportReplaces ==
    (last.op = "importJSON" /\ last.how = "ok" /\ AllIdle) =>
        LET file == last.file
            p0 == last.pre.products.nextKey
            h0 == last.pre.history.nextKey
        IN  /\ DOMAIN products.rows = p0 .. (p0 + Len(file.products) - 1)
            /\ \A i \in 1 .. Len(file.products) :
                  /\ products.rows[p0 + i - 1].id = p0 + i - 1
                  /\ products.rows[p0 + i - 1].name = file.products[i].name
                  /\ products.rows[p0 + i - 1].price = file.products[i].price
            /\ DOMAIN history.rows = h0 .. (h0 + Len(file.history) - 1)
            /\ \A i \in 1 .. Len(file.history) :
                  /\ history.rows[h0 + i - 1].id = h0 + i - 1
                  /\ \A f \in DOMAIN file.history[i] \ {"id"} :
                        history.rows[h0 + i - 1][f] = file.history[i][f]
            /\ DOMAIN products.rows \cap DOMAIN last.pre.products.rows = {}
            /\ DOMAIN history.rows \cap DOMAIN last.pre.history.rows = {}

\* A file with one product and one invoice replaced a store that held others.
C10_Replaced ==
    /\ last.op = "importJSON" /\ last.how = "ok" /\ AllIdle /\ ~last.rt
    /\ Len(last.file.products) = 1 /\ Len(last.file.history) = 1
    /\ last.pre.products.rows # << >> /\ last.pre.history.rows # << >>
    /\ Cardinality(DOMAIN history.rows) = 1
    /\ \E id \in DOMAIN history.rows :
          /\ history.rows[id].invoice_no = FormatInvoiceNo(5)
          /\ id # last.file.history[1].id



(***************************************************************************)
(* C11.  updateProduct of an id the local store does not hold.             *)
(***************************************************************************)
\* Task t is an updateProduct of an id the local store did not hold when it
\* was called.
UpdateOfAbsent(t) ==
    /\ tasks[t].op = "updateProduct"
    /\ tasks[t].id \notin DOMAIN tasks[t].pre.products.rows

\* C11: an updateProduct of an id absent from the local store changes
\* neither the local store nor the remote store at any of its steps, and
\* the call ends rejected (the NotFound failure reaches its caller).
C11_UpdateOfAbsentFails ==
    [][\A t \in Tasks :
          (serial /\ UpdateOfAbsent(t) /\ tasks'[t] # tasks[t]) =>
              /\ localStore' = localStore
              /\ remote' = remote
              /\ (tasks'[t] = Idle => last'.outcome = "rejected")]_vars


(***************************************************************************)
(* C12.  Products with an empty name or a negative price.                  *)
(***************************************************************************)
InvalidProduct(name, price) ==
    \/ name = ""
    \/ price # NaN /\ price # JsNull /\ price < 0

\* C12: no product of the local store or of a user's replica has an empty
\* name or a negative price (an addProduct or updateProduct with such a
\* name or price is rejected before any write).
C12_NoInvalidProductStored ==
    /\ \A id \in DOMAIN products.rows :
          ~InvalidProduct(products.rows[id].name, products.rows[id].price)
    /\ \A u \in Uids : \A id \in DOMAIN remote[u].products :
          ~InvalidProduct(remote[u].products[id].name, remote[u].products[id].price)


(***************************************************************************)
(* C13.  saveBill of a draft without items.                                *)
(***************************************************************************)
\* C13: no step of a saveBill whose draft has no items writes anything: the
\* invoices, the counter (the settings) and the remote store stay as they
\* are, and the call ends rejected.
C13_EmptyDraftWritesNothing ==
    [][\A t \in Tasks :
          (/\ tasks[t].op = "saveBill"
           /\ tasks[t].draft.items = << >>
           /\ tasks'[t] # tasks[t]) =>
              /\ localStore' = localStore
              /\ remote' = remote
              /\ (tasks'[t] = Idle => last'.outcome = "rejected")]_vars


(***************************************************************************)
(* C14.  A failed push during the reconciliation of a sign-in.             *)
(***************************************************************************)
\* The remote store of uid holds the document of push request m.
Pushed(uid, m) ==
    IF m.kind = "pushProduct"
    THEN /\ m.doc.id \in DOMAIN remote[uid].products
         /\ remote[uid].products[m.doc.id] = m.doc
    ELSE /\ m.doc.id \in DOMAIN remote[uid].history
         /\ remote[uid].history[m.doc.id] = m.doc

\* C14: when one setDoc of a sign-in's push fails, only that record is
\* skipped: once the sign-in has ended, every record that was still to be
\* pushed is in the user's replica and every record that was only in the
\* replica is in the local store.
C14_FailedPushSkipsOneRecord ==
    (/\ serial /\ AllIdle /\ authEvents = << >>
     /\ last.op = "signIn" /\ "todo" \in DOMAIN last) =>
        /\ \A i \in 2 .. Len(last.todo) : Pushed(last.uid, last.todo[i])
        /\ \A id \in DOMAIN last.pre.remote[last.uid].products :
              id \in DOMAIN products.rows
        /\ \A id \in DOMAIN last.pre.remote[last.uid].history :
              id \in DOMAIN history.rows


(***************************************************************************)
(* C15.  The reconciliation of a restored session.                         *)
(***************************************************************************)
\* Task t is the listener's syncFromFirestore taking its last step, all of
\* its remote reads having succeeded.
ListenerSyncEnds(t) ==
    /\ tasks[t].op = "listener"
    /\ tasks[t].pc \in {"pullGet", "pullPut"}
    /\ tasks'[t] = Idle

\* C15: when the reconciliation started by the listener for a restored
\* session (no operation was called yet) completes, every record of the
\* local store is in that user's replica and every record of the replica
\* is in the local store.
C15_RestoredSessionReconciles ==
    [][\A t \in Tasks :
          (opCount = 0 /\ ListenerSyncEnds(t)) =>
              LET uid == tasks[t].uid
              IN  /\ DOMAIN products'.rows \subseteq DOMAIN remote'[uid].products
                  /\ DOMAIN history'.rows \subseteq DOMAIN remote'[uid].history
                  /\ DOMAIN remote'[uid].products \subseteq DOMAIN products'.rows
                  /\ DOMAIN remote'[uid].history \subseteq DOMAIN history'.rows]_vars


(***************************************************************************)
(* C16.  The pull and the records the local store holds.                   *)
(***************************************************************************)
\* Table tbl' holds every row of tbl, unchanged.
RowsKept(before, after) ==
    \A id \in DOMAIN before.rows :
        id \in DOMAIN after.rows /\ after.rows[id] = before.rows[id]

\* C16: no step of syncFromFirestore changes a record the local store
\* holds, whatever was committed between its get and its put.
C16_PullKeepsLocalRecords ==
    [][\A t \in Tasks :
          (tasks[t].pc \in {"pullGet", "pullPut"} /\ tasks'[t] # tasks[t]) =>
              /\ RowsKept(products, products')
              /\ RowsKept(history, history')]_vars


(***************************************************************************)
(* C17.  Remote writes and the session.                                    *)
(***************************************************************************)
\* C17: a facade mutation sends a write or a delete to the remote store
\* only while a session is authenticated: never before a sign-in and never
\* once signOut has completed.
C17_NoRemoteWriteSignedOut ==
    [][\A t \in Tasks :
          (tasks[t].pc # "mirror" /\ tasks'[t].pc = "mirror") =>
              authUid # NoUser]_vars


(***************************************************************************)
(* C18.  An export made while an import is in progress.                    *)
(***************************************************************************)
\* What a downloaded file lists.
ProductsIn(file) == {<< p.name, p.price >> : p \in Range(file.products)}

InvoicesIn(file) == {h.invoice_no : h \in Range(file.history)}

\* What the collections held when import t was called, and what they hold
\* once it has finished.
ProductsBefore(t) ==
    {<< p.name, JsonNumber(p.price) >> : p \in Range(tasks[t].pre.products.rows)}

InvoicesBefore(t) == {h.invoice_no : h \in Range(tasks[t].pre.history.rows)}

ProductsAfter(t) ==
    IF IsBackup(tasks[t].file) THEN ProductsIn(tasks[t].file) ELSE ProductsBefore(t)

InvoicesAfter(t) ==
    IF IsBackup(tasks[t].file) THEN InvoicesIn(tasks[t].file) ELSE InvoicesBefore(t)

\* C18: an export made while an importJSON is in progress lists the
\* products the collection held before the import began or holds after it
\* has finished, and likewise the invoices: never a partly cleared or partly
\* re-inserted collection.
C18_ExportSeesNoPartialImport ==
    [][(last'.op = "exportJSON" /\ opCount' = opCount + 1 /\ tasks' = tasks) =>
          \A t \in Tasks :
              tasks[t].op = "importJSON" =>
                  /\ ProductsIn(last'.file) \in {ProductsBefore(t), ProductsAfter(t)}
                  /\ InvoicesIn(last'.file) \in {InvoicesBefore(t), InvoicesAfter(t)}]_vars


(***************************************************************************)
(* C19.  Saved invoices are never changed.                                 *)
(***************************************************************************)
\* The fields of an invoice that never change: invoice_no, created_at,
\* items and the totals.
Fixed(h) ==
    << h.invoice_no, h.created_at, h.items, h.grand_total, h.discount,
       h.discount_amount, h.final_total >>

\* C19: no step changes the invoice_no, the created_at, the items or the
\* totals of an invoice that stays in the local store; an invoice can only
\* be deleted.
C19_InvoicesImmutable ==
    [][\A i \in DOMAIN history.rows \cap DOMAIN history'.rows :
          Fixed(history'.rows[i]) = Fixed(history.rows[i])]_vars


(***************************************************************************)
(* C20.  Product operations and the invoices.                              *)
(***************************************************************************)
ProductOps == {"addProduct", "updateProduct", "deleteProduct"}

\* C20: no step of addProduct, updateProduct or deleteProduct, from the
\* call to its return, changes the history collection.
C20_ProductOpsKeepHistory ==
    [][\A t \in Tasks :
          (/\ tasks[t].op \in ProductOps \/ tasks'[t].op \in ProductOps
           /\ tasks'[t] # tasks[t]) =>
              history' = history]_vars

\* deleteProduct(1) has returned: Tea is gone from the products, and the
\* invoice that lists Tea is still in the history, as it was at the call.
C20_DeletedBilledProduct ==
    /\ AllIdle
    /\ last.op = "deleteProduct" /\ last.id = 1
    /\ 1 \in DOMAIN last.pre.products.rows
    /\ 1 \notin DOMAIN products.rows
    /\ 1 \in DOMAIN history.rows
    /\ history.rows[1].items[1].name = last.pre.products.rows[1].name
    /\ history = last.pre.history


(***************************************************************************)
(* C21.  The mirror call comes after the local write.                      *)
(***************************************************************************)
\* Mutation t sends its remote call in this step.
MirrorIssued(t) == tasks[t].pc # "mirror" /\ tasks'[t].pc = "mirror"

\* The local write of mutation t is committed in the state this step leads
\* to: the record it adds is there and was not before, the row it updates
\* has the new values, the row it deletes is gone.
LocalWriteDone(t) ==
    LET m == tasks'[t].mirror
    IN  CASE tasks[t].op = "addProduct" ->
                /\ m.doc.id \notin DOMAIN products.rows
                /\ m.doc.id \in DOMAIN products'.rows
                /\ products'.rows[m.doc.id] = m.doc
          [] tasks[t].op = "updateProduct" ->
                /\ DOMAIN products'.rows = DOMAIN products.rows
                /\ m.doc.id \in DOMAIN products.rows => products'.rows[m.doc.id] = m.doc
          [] tasks[t].op = "deleteProduct" -> m.id \notin DOMAIN products'.rows
          [] tasks[t].op = "saveBill" ->
                /\ m.doc.id \notin DOMAIN history.rows
                /\ m.doc.id \in DOMAIN history'.rows
                /\ history'.rows[m.doc.id] = m.doc
          [] tasks[t].op = "deleteHistoryItem" -> m.id \notin DOMAIN history'.rows

\* C21: a facade mutation sends its remote call only in the step in which
\* its local write is committed, and a mutation whose local write failed
\* ends without having sent one: it rejects and the remote store is as it
\* was.
C21_MirrorAfterLocalWrite ==
    [][\A t \in Tasks :
          /\ MirrorIssued(t) =>
                /\ tasks[t].op \in Mutations /\ tasks[t].pc \in WritePcs
                /\ LocalWriteDone(t)
          /\ (tasks[t].op \in Mutations /\ tasks'[t] = Idle
              /\ last'.outcome = "rejected") =>
                /\ tasks[t].pc # "mirror"
                /\ remote' = remote
                /\ localStore' = localStore]_vars

\* Signed in as u1: one mutation's remote call is out, its record being in
\* the local store, and another mutation has just ended rejected, its local
\* write having failed.
C21_MirroredAndFailed ==
    /\ user = "u1"
    /\ last.op \in Mutations /\ last.outcome = "rejected"
    /\ \E t \in Tasks :
          /\ tasks[t].op = "addProduct" /\ tasks[t].pc = "mirror"
          /\ tasks[t].mirror.doc.id \in DOMAIN products.rows


(***************************************************************************)
(* C22.  One reconciliation run for each sign-in.                          *)
(***************************************************************************)
\* Task t is a reconciliation run: the listener's syncFromFirestore, or the
\* push and pull of signInWithGoogle once the popup has resolved.
InReconciliation(t) ==
    \/ tasks[t].op = "listener"
    \/ tasks[t].op = "signIn" /\ tasks[t].pc # "popup"

\* C22: a transition of the session to authenticated starts one
\* reconciliation run and nothing else starts one, so, the user's
\* operations being made one at a time (a sign-out only once every run has
\* ended), two runs are never in flight together.
C22_OneRunPerSignIn ==
    serial => Cardinality({t \in Tasks : InReconciliation(t)}) <= 1


(***************************************************************************)
(* C23.  A remote call that never resolves.                                *)
(***************************************************************************)
\* Mutation t waits for the local store.
AwaitsLocalStore(t) == tasks[t].pc \in WritePcs \cup {"getCounter", "putCounter"}

\* C23: whatever remote calls stay unanswered, every local-store request
\* of every mutation is executed: a mutation waiting for the local store
\* gets past it, to its remote call or to its return.
C23_StuckMirrorBlocksNoCommit ==
    \A t \in Tasks :
        AwaitsLocalStore(t) ~> (tasks[t].pc \in {"mirror", "idle"})

\* The remote calls of an addProduct and of a later saveBill are both
\* unanswered, and the product and the invoice are both in the local store.
C23_TwoCommitsTwoPendingMirrors ==
    /\ tasks[1].op = "addProduct" /\ tasks[1].pc = "mirror"
    /\ tasks[1].mirror.doc.id \in DOMAIN products.rows
    /\ tasks[2].op = "saveBill" /\ tasks[2].pc = "mirror"
    /\ tasks[2].mirror.doc.id \in DOMAIN history.rows
    /\ tasks[2].pre.products = products


(***************************************************************************)
(* C24.  The syncing indicator.                                            *)
(***************************************************************************)
\* C24: isSyncing is true exactly in the states in which a reconciliation
\* run is in flight, also when the run of signInWithGoogle and the run of
\* the listener overlap.
C24_IsSyncingTracksRuns ==
    isSyncing <=> (\E t \in Tasks : InReconciliation(t))


(***************************************************************************)
(* C25.  The migration is done once.                                       *)
(***************************************************************************)
\* C25: however many invocations of migrateFromLocalStorage run, and
\* however they overlap, the local store (empty before the migration) holds
\* each legacy product and each legacy invoice at most once.
C25_MigratedAtMostOnce ==
    /\ Cardinality(DOMAIN products.rows) <= Len(legacy.products)
    /\ Cardinality(DOMAIN history.rows) <= Len(legacy.history)


(***************************************************************************)
(* C26.  A previewed bill is saved once.                                   *)
(***************************************************************************)
\* C26: a Save activation for the bill on show starts no saveBill while a
\* saveBill of that bill is still in flight, so that one shown bill
\* inserts one invoice and consumes one number.
C26_SavedAtMostOnce ==
    [][\A t \in Tasks :
          (tasks[t].op # "saveBill" /\ tasks'[t].op = "saveBill") =>
              \A u \in Tasks \ {t} :
                  ~(/\ tasks[u].op = "saveBill"
                    /\ tasks[u].draft = tasks'[t].draft
                    /\ activeBill # << >>
                    /\ tasks[u].draft = Partial(activeBill[1]))]_vars


(***************************************************************************)
(* C27.  saveBill assigns a number no other invoice carries.               *)
(***************************************************************************)
\* C27: the invoice_no of the invoice saveBill inserts is carried by no
\* invoice the local store holds, wherever that invoice came from (here:
\* the first operation the user makes after the launch, so any other
\* invoice was there at the launch or was pulled).
C27_FreshInvoiceNo ==
    [][\A t \in Tasks :
          (/\ tasks[t].op = "saveBill" /\ tasks[t].pc = "addBill"
           /\ tasks'[t].pc # "addBill"
           /\ opCount = 1) =>
              \A i \in DOMAIN history.rows :
                  history.rows[i].invoice_no # tasks[t].bill.invoice_no]_vars


(***************************************************************************)
(* C28.  A deleted record does not come back.                              *)
(***************************************************************************)
\* The operation that ended last before sign-in t was called was a delete
\* that removed record id of the table.
DeletedJustBefore(t, table, id) ==
    LET prev == tasks[t].prev
    IN  /\ prev.op = (IF table = "products" THEN "deleteProduct" ELSE "deleteHistoryItem")
        /\ prev.id = id
        /\ id \in DOMAIN (IF table = "products" THEN prev.pre.products.rows
                          ELSE prev.pre.history.rows)

\* C28: the pull of a sign-in never inserts a record under an id that a
\* completed deleteProduct or deleteHistoryItem removed (here: the delete
\* that ended right before the sign-in was called).
C28_DeletedStaysDeleted ==
    [][\A t \in Tasks :
          (/\ serial
           /\ tasks[t].op = "signIn" /\ tasks[t].pc = "pullPut"
           /\ tasks'[t] # tasks[t]) =>
              ~DeletedJustBefore(t, Head(tasks[t].pulls).table,
                                 Head(tasks[t].pulls).doc.id)]_vars


(***************************************************************************)
(* C29.  The replica follows the local store.                              *)
(***************************************************************************)
\* The replica of uid and the local tables hold the same ids.
SameIds(p, h, replica) ==
    /\ DOMAIN p.rows = DOMAIN replica.products
    /\ DOMAIN h.rows = DOMAIN replica.history

\* C29: for a signed-in user whose replica held the ids of the local store
\* when an operation was called (a mutation whose remote call succeeded,
\* an update being of a product the store holds, or an import that was
\* carried out), the replica holds the ids of the local store again once
\* the operation has ended and nothing is in flight.
C29_MirrorConsistency ==
    (/\ serial /\ AllIdle /\ authEvents = << >>
     /\ user # NoUser
     /\ last.op \in Mutations \cup {"importJSON"}
     /\ last.how = "ok"
     /\ "pre" \in DOMAIN last
     /\ last.op = "updateProduct" => last.id \in DOMAIN last.pre.products.rows
     /\ SameIds(last.pre.products, last.pre.history, last.pre.remote[user])) =>
        SameIds(products, history, remote[user])


(***************************************************************************)
(* C30.  One user's records stay out of another user's replica.            *)
(***************************************************************************)
\* Push request m carries a product that the local store got from u1's
\* replica: the device was launched with u1's session and without that
\* product, and the user has since only signed out and called this sign-in.
PulledFromU1(t, m) ==
    /\ tasks[t].prev.op = "signOut"
    /\ opCount = 2
    /\ m.kind = "pushProduct"
    /\ m.doc.id \in DOMAIN tasks[t].pre.remote["u1"].products
    /\ m.doc = tasks[t].pre.remote["u1"].products[m.doc.id]
    /\ m.doc.id \notin DOMAIN UsedProducts.rows

\* C30: the push of a sign-in as u2 never writes into u2's replica a
\* record that entered the local store from u1's replica while u1 was
\* signed in.
C30_NoCrossUserPush ==
    [][\A t \in Tasks :
          (/\ serial
           /\ tasks[t].op = "signIn" /\ tasks[t].pc = "push"
           /\ tasks[t].uid = "u2"
           /\ remote' # remote) =>
              ~PulledFromU1(t, Head(tasks[t].todo))]_vars

=============================================================================
